---- MODULE Spec2Model ----
(***************************************************************************)
(* Model of the two scripts of the repository:                             *)
(*   - arm-oop-concept.py : the AzureResource class hierarchy, the         *)
(*     ResourceGroup container and the scripted environment;               *)
(*   - Tag-check.py       : the tag compliance policy and its scoring      *)
(*     functions.                                                          *)
(*                                                                         *)
(* Money is kept exact: every amount is an integer number of 10^-5 dollar  *)
(* (0.00099 $/GB is 99, 0.0104 $/h is 1040, 4.99 $ is 499000).             *)
(***************************************************************************)
EXTENDS Integers, Sequences, FiniteSets, TLC

VARIABLES
    objs,             \* every AzureResource instance constructed so far, in construction order
    total_resources,  \* the class variable AzureResource.total_resources
    groups,           \* ResourceGroup name -> its _resources list (indices into objs)
    pc,               \* "client": any caller of the classes; "L<n>": the script is at
                      \* line n; "audit": the tag auditor
    locals,           \* the script's module-level results (name -> value)
    policy,           \* Tag-check.py: REQUIRED_TAGS, RECOMMENDED_TAGS, VALID_VALUES
    resources,        \* Tag-check.py: the list of resource records under audit
    returned          \* history: the calls made so far, (function, argument, value)

vars == <<objs, total_resources, groups, pc, locals, policy, resources, returned>>

-----------------------------------------------------------------------------
(* Bounds of the exploration *)

MaxResources == 2
MaxGroupLen == 2
MaxGenerated == 2
MaxCalls == 3

Names == {"vm-dev-01", "app-dev"}
GroupNames == {"rg-production", "rg-development"}
Hours == {0, 1, 24, 730}
VMSizeCtor == {"Standard_D4s_v3", "Standard_Z9"}
VMSizeInputs == {"Standard_D2s_v3", "Standard_Z9"}
StorageTierCtor == {"Cool"}
StorageTierInputs == {"Archive", "Premium"}
StorageGbInputs == {5000}
SQLTierCtor == {"S0"}
SQLTierInputs == {"Basic", "Hyperscale"}
SQLGbInputs == {50}
PlanInputs == {"Basic"}
InstanceCtor == {1}
InstanceInputs == {0, 1, 10, 11}
AutoScaleInputs == {<<0, 20>>}
NotAResource == 0
TagKeyInputs == {"Environment"}
TagValueInputs == {"Production"}

-----------------------------------------------------------------------------
(* Rate tables *)

VM_PRICING ==
    ("Standard_B1s" :> 1040) @@ ("Standard_B2s" :> 4160) @@
    ("Standard_D2s_v3" :> 9600) @@ ("Standard_D4s_v3" :> 19200) @@
    ("Standard_E4s_v3" :> 25200) @@ ("Standard_E8s_v3" :> 50400)

TIER_PRICING == ("Hot" :> 1840) @@ ("Cool" :> 1000) @@ ("Archive" :> 99)

DTU_PRICING ==
    ("Basic" :> 499000) @@ ("S0" :> 1500000) @@ ("S1" :> 3000000) @@
    ("S2" :> 7500000) @@ ("S3" :> 15000000) @@ ("P1" :> 46500000)

PLAN_PRICING ==
    ("Free" :> 0) @@ ("Shared" :> 949000) @@ ("Basic" :> 5475000) @@
    ("Standard" :> 14600000) @@ ("Premium" :> 29200000)

\* dict.get(key, default)
DictGet(d, key, default) == IF key \in DOMAIN d THEN d[key] ELSE default

-----------------------------------------------------------------------------
(* AzureResource and its four concrete classes *)

NoTags == [k \in {} |-> ""]

\* AzureResource.__init__. "tags or {}": None and the empty mapping are both
\* falsy and both give a fresh empty mapping, so None is passed as NoTags.
AzureResource_init(name, tags) ==
    [name |-> name,
     tags |-> IF DOMAIN tags = {} THEN NoTags ELSE tags,
     status |-> "Running"]

VirtualMachine_init(name, vm_size, tags) ==
    LET base == AzureResource_init(name, tags)
    IN  [kind |-> "VirtualMachine", name |-> base.name, tags |-> base.tags,
         status |-> base.status, vm_size |-> vm_size]

StorageAccount_init(name, storage_gb, tier, tags) ==
    LET base == AzureResource_init(name, tags)
    IN  [kind |-> "StorageAccount", name |-> base.name, tags |-> base.tags,
         status |-> base.status, storage_gb |-> storage_gb, tier |-> tier]

SQLDatabase_init(name, tier, storage_gb, tags) ==
    LET base == AzureResource_init(name, tags)
    IN  [kind |-> "SQLDatabase", name |-> base.name, tags |-> base.tags,
         status |-> base.status, tier |-> tier, storage_gb |-> storage_gb,
         backup_enabled |-> TRUE]

AppService_init(name, plan, instances, tags) ==
    LET base == AzureResource_init(name, tags)
    IN  [kind |-> "AppService", name |-> base.name, tags |-> base.tags,
         status |-> base.status, plan |-> plan, instances |-> instances,
         auto_scale |-> FALSE]

\* faulty variant: a stopped VM is billed like a running one
VirtualMachine_calculate_cost_ignoring_status(r, hours) ==
    DictGet(VM_PRICING, r.vm_size, 10000) * hours

VirtualMachine_calculate_cost(r, hours) ==
    IF r.status = "Stopped"
    THEN 0
    ELSE DictGet(VM_PRICING, r.vm_size, 10000) * hours

StorageAccount_calculate_cost(r, hours) ==
    r.storage_gb * TIER_PRICING[r.tier]

SQLDatabase_calculate_cost(r, hours) ==
    LET compute_cost == DictGet(DTU_PRICING, r.tier, 3000000)
        storage_cost == r.storage_gb * 11500
        backup_cost == IF r.backup_enabled THEN 1000000 ELSE 0
    IN  compute_cost + storage_cost + backup_cost

\* faulty variant: the VM's deallocation rule copied to the app service
AppService_calculate_cost_deallocated(r, hours) ==
    IF r.status = "Stopped" THEN 0 ELSE PLAN_PRICING[r.plan] * r.instances

AppService_calculate_cost(r, hours) ==
    PLAN_PRICING[r.plan] * r.instances

\* the instances on which calculate_cost raises KeyError: the two classes
\* that subscript their rate table instead of calling get
MissingRate(r) ==
    \/ r.kind = "StorageAccount" /\ r.tier \notin DOMAIN TIER_PRICING
    \/ r.kind = "AppService" /\ r.plan \notin DOMAIN PLAN_PRICING

\* resource.calculate_cost(hours): dispatch on the class of the instance
calculate_cost(r, hours) ==
    CASE r.kind = "VirtualMachine" -> VirtualMachine_calculate_cost(r, hours)
      [] r.kind = "StorageAccount" -> StorageAccount_calculate_cost(r, hours)
      [] r.kind = "SQLDatabase" -> SQLDatabase_calculate_cost(r, hours)
      [] r.kind = "AppService" -> AppService_calculate_cost(r, hours)

\* the default of the hours parameter
cost(r) == calculate_cost(r, 730)

Ids == 1..Len(objs)
IsKind(i, kind) == i \in Ids /\ objs[i].kind = kind

-----------------------------------------------------------------------------
(* Construction *)

\* faulty variant: "self.total_resources += 1", which leaves the class variable alone
Construct_instance_attribute(obj) ==
    /\ objs' = Append(objs, obj)
    /\ total_resources' = total_resources
    /\ UNCHANGED groups

Construct(obj) ==
    /\ objs' = Append(objs, obj)
    /\ total_resources' = total_resources + 1
    /\ UNCHANGED groups

NewVirtualMachine(name, vm_size, tags) ==
    Construct(VirtualMachine_init(name, vm_size, tags))

NewStorageAccount(name, storage_gb, tier, tags) ==
    Construct(StorageAccount_init(name, storage_gb, tier, tags))

NewSQLDatabase(name, tier, storage_gb, tags) ==
    Construct(SQLDatabase_init(name, tier, storage_gb, tags))

NewAppService(name, plan, instances, tags) ==
    Construct(AppService_init(name, plan, instances, tags))

-----------------------------------------------------------------------------
(* The methods, as functions of the instance: self is the instance after   *)
(* the call, ret the returned string (its fixed text, and the amounts      *)
(* formatted into it).                                                     *)

AzureResource_start(r) ==
    IF r.status = "Stopped"
    THEN [self |-> [r EXCEPT !.status = "Running"], ret |-> [msg |-> "started"]]
    ELSE [self |-> r, ret |-> [msg |-> "is already running"]]

\* faulty variant: stop on a stopped resource starts it again
AzureResource_stop_toggling(r) ==
    IF r.status = "Running"
    THEN [self |-> [r EXCEPT !.status = "Stopped"], ret |-> [msg |-> "stopped"]]
    ELSE [self |-> [r EXCEPT !.status = "Running"], ret |-> [msg |-> "is already stopped"]]

AzureResource_stop(r) ==
    IF r.status = "Running"
    THEN [self |-> [r EXCEPT !.status = "Stopped"], ret |-> [msg |-> "stopped"]]
    ELSE [self |-> r, ret |-> [msg |-> "is already stopped"]]

AzureResource_add_tag(r, key, value) ==
    [self |-> [r EXCEPT !.tags =
                  [k \in DOMAIN @ \cup {key} |-> IF k = key THEN value ELSE @[k]]],
     ret |-> [msg |-> "Tag added"]]

\* faulty variant: the size is assigned before it is validated
VirtualMachine_resize_assigning_first(r, new_size) ==
    LET old_cost == cost(r)
        resized == [r EXCEPT !.vm_size = new_size]
        new_cost == cost(resized)
        savings == old_cost - new_cost
    IN  IF new_size \notin DOMAIN VM_PRICING
        THEN [self |-> resized, ret |-> [msg |-> "Invalid VM size"]]
        ELSE [self |-> resized,
              ret |-> [msg |-> "Resized", old_cost |-> old_cost,
                       new_cost |-> new_cost, savings |-> savings]]

VirtualMachine_resize(r, new_size) ==
    IF new_size \notin DOMAIN VM_PRICING
    THEN [self |-> r, ret |-> [msg |-> "Invalid VM size"]]
    ELSE LET old_cost == cost(r)
             resized == [r EXCEPT !.vm_size = new_size]
             new_cost == cost(resized)
             savings == old_cost - new_cost
         IN  [self |-> resized,
              ret |-> [msg |-> "Resized", old_cost |-> old_cost,
                       new_cost |-> new_cost, savings |-> savings]]

\* faulty variant: restart does nothing to a VM that is not running
VirtualMachine_restart_if_running(r) ==
    IF r.status = "Running"
    THEN [self |-> r, ret |-> [msg |-> "restarted"]]
    ELSE [self |-> r, ret |-> [msg |-> "is already stopped"]]

\* faulty variant: the second assignment of restart is missing
VirtualMachine_restart_unfinished(r) ==
    [self |-> [r EXCEPT !.status = "Restarting"], ret |-> [msg |-> "restarted"]]

VirtualMachine_restart(r) ==
    LET restarting == [r EXCEPT !.status = "Restarting"]
    IN  [self |-> [restarting EXCEPT !.status = "Running"],
         ret |-> [msg |-> "restarted"]]

\* faulty variant: the difference is taken the other way round
StorageAccount_change_tier_gain(r, new_tier) ==
    IF new_tier \notin DOMAIN TIER_PRICING
    THEN [self |-> r, ret |-> [msg |-> "Invalid tier"]]
    ELSE LET old_cost == cost(r)
             changed == [r EXCEPT !.tier = new_tier]
             new_cost == cost(changed)
             savings == new_cost - old_cost
         IN  [self |-> changed,
              ret |-> [msg |-> "Tier changed", old_cost |-> old_cost,
                       new_cost |-> new_cost, savings |-> savings]]

StorageAccount_change_tier(r, new_tier) ==
    IF new_tier \notin DOMAIN TIER_PRICING
    THEN [self |-> r, ret |-> [msg |-> "Invalid tier"]]
    ELSE LET old_cost == cost(r)
             changed == [r EXCEPT !.tier = new_tier]
             new_cost == cost(changed)
             savings == old_cost - new_cost
         IN  [self |-> changed,
              ret |-> [msg |-> "Tier changed", old_cost |-> old_cost,
                       new_cost |-> new_cost, savings |-> savings]]

\* faulty variant: the membership test is missing
SQLDatabase_scale_tier_unvalidated(r, new_tier) ==
    LET old_cost == cost(r)
        scaled == [r EXCEPT !.tier = new_tier]
        new_cost == cost(scaled)
    IN  [self |-> scaled,
         ret |-> [msg |-> "Scaled", old_cost |-> old_cost, new_cost |-> new_cost]]

SQLDatabase_scale_tier(r, new_tier) ==
    IF new_tier \notin DOMAIN DTU_PRICING
    THEN [self |-> r, ret |-> [msg |-> "Invalid tier"]]
    ELSE LET old_cost == cost(r)
             scaled == [r EXCEPT !.tier = new_tier]
             new_cost == cost(scaled)
         IN  [self |-> scaled,
              ret |-> [msg |-> "Scaled", old_cost |-> old_cost,
                       new_cost |-> new_cost]]

\* faulty variant: the lower limit is tested with "< 0"
AppService_scale_out_from_zero(r, new_instance_count) ==
    IF new_instance_count < 0 \/ new_instance_count > 10
    THEN [self |-> r, ret |-> [msg |-> "Instance count must be between 1 and 10"]]
    ELSE LET old_cost == cost(r)
             scaled == [r EXCEPT !.instances = new_instance_count]
             new_cost == cost(scaled)
         IN  [self |-> scaled,
              ret |-> [msg |-> "Scaled", old_cost |-> old_cost,
                       new_cost |-> new_cost]]

AppService_scale_out(r, new_instance_count) ==
    IF new_instance_count < 1 \/ new_instance_count > 10
    THEN [self |-> r, ret |-> [msg |-> "Instance count must be between 1 and 10"]]
    ELSE LET old_cost == cost(r)
             scaled == [r EXCEPT !.instances = new_instance_count]
             new_cost == cost(scaled)
         IN  [self |-> scaled,
              ret |-> [msg |-> "Scaled", old_cost |-> old_cost,
                       new_cost |-> new_cost]]

\* faulty variant: enabling auto-scale also scales to min_instances
AppService_enable_auto_scale_scaling(r, min_instances, max_instances) ==
    [self |-> [f \in DOMAIN r \cup {"min_instances", "max_instances"} |->
                  CASE f = "auto_scale" -> TRUE
                    [] f = "instances" -> min_instances
                    [] f = "min_instances" -> min_instances
                    [] f = "max_instances" -> max_instances
                    [] OTHER -> r[f]],
     ret |-> [msg |-> "Auto-scale enabled"]]

AppService_enable_auto_scale(r, min_instances, max_instances) ==
    [self |-> [f \in DOMAIN r \cup {"min_instances", "max_instances"} |->
                  CASE f = "auto_scale" -> TRUE
                    [] f = "min_instances" -> min_instances
                    [] f = "max_instances" -> max_instances
                    [] OTHER -> r[f]],
     ret |-> [msg |-> "Auto-scale enabled"]]

\* the first character of every returned string
Icon(ret) ==
    CASE ret.msg \in {"Invalid VM size", "Invalid tier",
                      "Instance count must be between 1 and 10",
                      "Must be an AzureResource instance"} -> "error"
      [] ret.msg \in {"is already running", "is already stopped"} -> "info"
      [] OTHER -> "ok"

-----------------------------------------------------------------------------
(* A call of a method on the instance objs[i] *)

Call(i, result) ==
    /\ objs' = [objs EXCEPT ![i] = result.self]
    /\ UNCHANGED <<total_resources, groups>>

start(i) == i \in Ids /\ Call(i, AzureResource_start(objs[i]))

stop(i) == i \in Ids /\ Call(i, AzureResource_stop(objs[i]))

add_tag(i, key, value) == i \in Ids /\ Call(i, AzureResource_add_tag(objs[i], key, value))

resize(i, new_size) ==
    IsKind(i, "VirtualMachine") /\ Call(i, VirtualMachine_resize(objs[i], new_size))

restart(i) ==
    IsKind(i, "VirtualMachine") /\ Call(i, VirtualMachine_restart(objs[i]))

change_tier(i, new_tier) ==
    IsKind(i, "StorageAccount") /\ Call(i, StorageAccount_change_tier(objs[i], new_tier))

scale_tier(i, new_tier) ==
    IsKind(i, "SQLDatabase") /\ Call(i, SQLDatabase_scale_tier(objs[i], new_tier))

scale_out(i, new_instance_count) ==
    IsKind(i, "AppService") /\ Call(i, AppService_scale_out(objs[i], new_instance_count))

enable_auto_scale(i, min_instances, max_instances) ==
    /\ IsKind(i, "AppService")
    /\ Call(i, AppService_enable_auto_scale(objs[i], min_instances, max_instances))

-----------------------------------------------------------------------------
(* ResourceGroup *)

RECURSIVE SumCost_distinct(_, _)
\* faulty variant: a member listed twice is counted once
SumCost_distinct(members, os) ==
    IF members = <<>>
    THEN 0
    ELSE (IF \E n \in 1..Len(Tail(members)) : Tail(members)[n] = Head(members)
          THEN 0
          ELSE cost(os[Head(members)]))
         + SumCost_distinct(Tail(members), os)

RECURSIVE SumCost(_, _)
\* sum(resource.calculate_cost() for resource in members), left to right
SumCost(members, os) ==
    IF members = <<>>
    THEN 0
    ELSE cost(os[Head(members)]) + SumCost(Tail(members), os)

total_cost(g) == SumCost(groups[g], objs)

RECURSIVE FilterOutName_first(_, _, _)
\* faulty variant: only the first member of that name is removed (list.remove)
FilterOutName_first(members, os, resource_name) ==
    IF members = <<>>
    THEN <<>>
    ELSE IF os[Head(members)].name # resource_name
         THEN <<Head(members)>> \o FilterOutName_first(Tail(members), os, resource_name)
         ELSE Tail(members)

RECURSIVE FilterOutName(_, _, _)
\* [r for r in members if r.name != resource_name]
FilterOutName(members, os, resource_name) ==
    IF members = <<>>
    THEN <<>>
    ELSE LET rest == FilterOutName(Tail(members), os, resource_name)
         IN  IF os[Head(members)].name # resource_name
             THEN <<Head(members)>> \o rest
             ELSE rest

RECURSIVE FindByName(_, _, _)
\* get_resource: the first member with that name, or None (NotAResource)
FindByName(members, os, name) ==
    IF members = <<>>
    THEN NotAResource
    ELSE IF os[Head(members)].name = name
         THEN Head(members)
         ELSE FindByName(Tail(members), os, name)

get_resource(g, name) == FindByName(groups[g], objs, name)

RECURSIVE StartEach(_, _)
\* [resource.start() for resource in members]
StartEach(members, os) ==
    IF members = <<>>
    THEN os
    ELSE StartEach(Tail(members),
                   [os EXCEPT ![Head(members)] = AzureResource_start(os[Head(members)]).self])

\* faulty variant: the group holds copies, stop_all stops the copies
StopEach_on_copies(members, os) == os

RECURSIVE StopEach(_, _)
\* [resource.stop() for resource in members]
StopEach(members, os) ==
    IF members = <<>>
    THEN os
    ELSE StopEach(Tail(members),
                  [os EXCEPT ![Head(members)] = AzureResource_stop(os[Head(members)]).self])

\* faulty variant: the new member is put in front (insert(0, resource))
ResourceGroup_add_resource_prepending(members, x, os) ==
    IF x \notin 1..Len(os)
    THEN [members |-> members, ret |-> [msg |-> "Must be an AzureResource instance"]]
    ELSE [members |-> <<x>> \o members, ret |-> [msg |-> "Added"]]

\* add_resource / remove_resource as functions of the member list
ResourceGroup_add_resource(members, x, os) ==
    IF x \notin 1..Len(os)
    THEN [members |-> members, ret |-> [msg |-> "Must be an AzureResource instance"]]
    ELSE [members |-> Append(members, x), ret |-> [msg |-> "Added"]]

ResourceGroup_remove_resource(members, resource_name, os) ==
    [members |-> FilterOutName(members, os, resource_name),
     ret |-> [msg |-> "Removed"]]

\* len(group) and iter(group)
ResourceGroup_len(members) == Len(members)

ResourceGroup_iter(members) == members

add_resource(g, x) ==
    /\ g \in GroupNames
    /\ groups' = [groups EXCEPT ![g] = ResourceGroup_add_resource(@, x, objs).members]
    /\ UNCHANGED <<objs, total_resources>>

remove_resource(g, resource_name) ==
    /\ g \in GroupNames
    /\ groups' = [groups EXCEPT ![g] =
                     ResourceGroup_remove_resource(@, resource_name, objs).members]
    /\ UNCHANGED <<objs, total_resources>>

start_all(g) ==
    /\ g \in GroupNames
    /\ objs' = StartEach(groups[g], objs)
    /\ UNCHANGED <<groups, total_resources>>

stop_all(g) ==
    /\ g \in GroupNames
    /\ objs' = StopEach(groups[g], objs)
    /\ UNCHANGED <<groups, total_resources>>

-----------------------------------------------------------------------------
(* Any client of the classes: the methods in any order, on any instance *)

TagInputs == {NoTags} \cup {k :> v : k \in TagKeyInputs, v \in TagValueInputs}

ClientConstruct ==
    /\ total_resources < MaxResources
    /\ \E name \in Names, tags \in TagInputs :
          \/ \E vm_size \in VMSizeCtor : NewVirtualMachine(name, vm_size, tags)
          \/ \E gb \in StorageGbInputs, tier \in StorageTierCtor :
                NewStorageAccount(name, gb, tier, tags)
          \/ \E tier \in SQLTierCtor, gb \in SQLGbInputs :
                NewSQLDatabase(name, tier, gb, tags)
          \/ \E plan \in PlanInputs, n \in InstanceCtor :
                NewAppService(name, plan, n, tags)

ClientResource ==
    \E i \in Ids :
       \/ start(i)
       \/ stop(i)
       \/ \E k \in TagKeyInputs, v \in TagValueInputs : add_tag(i, k, v)
       \/ \E new_size \in VMSizeInputs : resize(i, new_size)
       \/ restart(i)
       \/ \E new_tier \in StorageTierInputs : change_tier(i, new_tier)
       \/ \E new_tier \in SQLTierInputs : scale_tier(i, new_tier)
       \/ \E n \in InstanceInputs : scale_out(i, n)
       \/ \E mm \in AutoScaleInputs : enable_auto_scale(i, mm[1], mm[2])

ClientGroup ==
    \E g \in GroupNames :
       \/ \E x \in Ids \cup {NotAResource} :
             /\ Len(groups[g]) < MaxGroupLen
             /\ add_resource(g, x)
       \/ \E name \in Names : remove_resource(g, name)
       \/ start_all(g)
       \/ stop_all(g)

Client ==
    /\ pc = "client"
    /\ (ClientConstruct \/ ClientResource \/ ClientGroup)
    /\ UNCHANGED <<pc, locals, policy, resources, returned>>

\* a client that builds instances and calls their methods, without any group
ClientWithoutGroups ==
    /\ pc = "client"
    /\ (ClientConstruct \/ ClientResource)
    /\ UNCHANGED <<pc, locals, policy, resources, returned>>

\* list_resources: the string for an empty group, else the accumulated total
ResourceGroup_list_resources(members, os) ==
    IF members = <<>>
    THEN [msg |-> "No resources"]
    ELSE SumCost(members, os)

-----------------------------------------------------------------------------
(* The script: cells 4 to 6, one step per statement, named by its line *)

At(line, next) == pc = line /\ pc' = next

\* the instances by the script's variable names, in construction order
vm_web == 1
vm_db == 2
storage_data == 3
storage_backup == 4
sql_prod == 5
app_prod == 6
vm_dev == 7
storage_dev == 8
sql_dev == 9
app_dev == 10

Assign(name, value) ==
    /\ locals' = [k \in DOMAIN locals \cup {name} |->
                     IF k = name THEN value ELSE locals[k]]
    /\ UNCHANGED <<objs, total_resources, groups>>

ScriptBuildProduction ==
    /\ UNCHANGED locals
    /\ \/ At("L418", "L426") /\ NewVirtualMachine("vm-web-prod-01", "Standard_D4s_v3",
              ("Environment" :> "Production") @@ ("Application" :> "Web"))
       \/ At("L426", "L434") /\ NewVirtualMachine("vm-db-prod-01", "Standard_E8s_v3",
              ("Environment" :> "Production") @@ ("Application" :> "Database"))
       \/ At("L434", "L442") /\ NewStorageAccount("stproddata001", 1000, "Hot", NoTags)
       \/ At("L442", "L450") /\ NewStorageAccount("stprodbackup001", 5000, "Cool", NoTags)
       \/ At("L450", "L458") /\ NewSQLDatabase("sqlprod001", "S3", 500, NoTags)
       \/ At("L458", "L467") /\ NewAppService("app-prod-web", "Standard", 3, NoTags)
       \/ At("L467", "L468") /\ add_resource("rg-production", vm_web)
       \/ At("L468", "L469") /\ add_resource("rg-production", vm_db)
       \/ At("L469", "L470") /\ add_resource("rg-production", storage_data)
       \/ At("L470", "L471") /\ add_resource("rg-production", storage_backup)
       \/ At("L471", "L472") /\ add_resource("rg-production", sql_prod)
       \/ At("L472", "L479") /\ add_resource("rg-production", app_prod)

ScriptBuildDevelopment ==
    /\ UNCHANGED locals
    /\ \/ At("L479", "L480") /\ NewVirtualMachine("vm-dev-01", "Standard_B2s", NoTags)
       \/ At("L480", "L481") /\ NewStorageAccount("stdev001", 100, "Hot", NoTags)
       \/ At("L481", "L482") /\ NewSQLDatabase("sqldev001", "Basic", 50, NoTags)
       \/ At("L482", "L484") /\ NewAppService("app-dev", "Basic", 1, NoTags)
       \/ At("L484", "L485") /\ add_resource("rg-development", vm_dev)
       \/ At("L485", "L486") /\ add_resource("rg-development", storage_dev)
       \/ At("L486", "L487") /\ add_resource("rg-development", sql_dev)
       \/ At("L487", "L491") /\ add_resource("rg-development", app_dev)

ScriptOptimize ==
    /\ UNCHANGED locals
    /\ \/ At("L517", "L520") /\ resize(vm_web, "Standard_D2s_v3")
       \/ At("L520", "L523") /\ change_tier(storage_backup, "Archive")
       \/ At("L523", "L524") /\ scale_out(app_dev, 1)
       \/ At("L524", "L527") /\ scale_tier(sql_dev, "Basic")
       \/ At("L527", "L530") /\ stop(vm_dev)
       \/ At("L530", "L542") /\ enable_auto_scale(app_prod, 2, 5)

ScriptReport ==
    \/ At("L491", "L504") /\ Assign("printed_total_resources", total_resources)
    \/ At("L504", "L507") /\ Assign("prod_cost",
           ResourceGroup_list_resources(groups["rg-production"], objs))
    \/ At("L507", "L517") /\ Assign("dev_cost",
           ResourceGroup_list_resources(groups["rg-development"], objs))
    \/ At("L542", "L545") /\ Assign("new_prod_cost",
           ResourceGroup_list_resources(groups["rg-production"], objs))
    \/ At("L545", "L547") /\ Assign("new_dev_cost",
           ResourceGroup_list_resources(groups["rg-development"], objs))
    \/ At("L547", "L548") /\ Assign("new_total_cost",
           locals["new_prod_cost"] + locals["new_dev_cost"])
    \/ At("L548", "L550") /\ Assign("old_total_cost",
           locals["prod_cost"] + locals["dev_cost"])
    \/ At("L550", "done") /\ Assign("savings",
           locals["old_total_cost"] - locals["new_total_cost"])

Script ==
    /\ (ScriptBuildProduction \/ ScriptBuildDevelopment \/ ScriptOptimize \/ ScriptReport)
    /\ UNCHANGED <<policy, resources, returned>>

-----------------------------------------------------------------------------
(* Tag-check.py: the tagging policy and the helper functions *)

REQUIRED_TAGS == <<"Environment", "CostCenter", "Owner", "Project">>

RECOMMENDED_TAGS == <<"DataClassification", "BackupPolicy", "MaintenanceWindow">>

VALID_VALUES ==
    ("Environment" :> <<"Production", "Staging", "Development", "Test">>) @@
    ("DataClassification" :> <<"Public", "Internal", "Confidential", "Restricted">>) @@
    ("BackupPolicy" :> <<"Daily", "Weekly", "Monthly", "None">>)

\* the three module-level names, which every function reads at call time
Policy ==
    [REQUIRED_TAGS |-> REQUIRED_TAGS,
     RECOMMENDED_TAGS |-> RECOMMENDED_TAGS,
     VALID_VALUES |-> VALID_VALUES]

Range(seq) == {seq[n] : n \in 1..Len(seq)}

RECURSIVE MissingFrom(_, _)
\* for tag in wanted: if tag not in resource["tags"]: missing.append(tag)
MissingFrom(wanted, tags) ==
    IF wanted = <<>>
    THEN <<>>
    ELSE (IF Head(wanted) \notin DOMAIN tags THEN <<Head(wanted)>> ELSE <<>>)
         \o MissingFrom(Tail(wanted), tags)

\* faulty variant: a tag holding the empty string is taken for a missing one
\* ("if not resource['tags'].get(tag)")
check_required_tags_falsy(resource, pol) ==
    MissingFrom(pol.REQUIRED_TAGS,
                [k \in {x \in DOMAIN resource.tags : resource.tags[x] # ""} |->
                    resource.tags[k]])

check_required_tags(resource, pol) == MissingFrom(pol.REQUIRED_TAGS, resource.tags)

check_recommended_tags(resource, pol) == MissingFrom(pol.RECOMMENDED_TAGS, resource.tags)

\* the order in which a mapping built by the generator is iterated
TagOrder ==
    <<"Environment", "CostCenter", "Owner", "Project",
      "DataClassification", "BackupPolicy", "MaintenanceWindow", "Department">>

RECURSIVE InvalidAmong(_, _, _)
\* for tag_name, tag_value in resource["tags"].items(): ...
InvalidAmong(keys, tags, valid) ==
    IF keys = <<>>
    THEN <<>>
    ELSE LET tag_name == Head(keys)
             rest == InvalidAmong(Tail(keys), tags, valid)
         IN  IF tag_name \in DOMAIN tags
                /\ tag_name \in DOMAIN valid
                /\ tags[tag_name] \notin Range(valid[tag_name])
             THEN <<[tag |-> tag_name, value |-> tags[tag_name],
                     valid_values |-> valid[tag_name]]>> \o rest
             ELSE rest

\* faulty variant: the policy's tags are looked up with get, so an absent
\* tag counts as a tag with an invalid value
validate_tag_values_by_policy(resource, pol) ==
    SelectSeq(<<"Environment", "DataClassification", "BackupPolicy">>,
              LAMBDA tag_name :
                 \/ tag_name \notin DOMAIN resource.tags
                 \/ resource.tags[tag_name] \notin Range(pol.VALID_VALUES[tag_name]))

validate_tag_values(resource, pol) ==
    InvalidAmong(TagOrder, resource.tags, pol.VALID_VALUES)

\* Scores are kept exact in half points: 200 is the score 100, 175 is 87.5.
\* (n / len) * 50 becomes (n * 50 * 2) \div len, exact for the policy's lengths.
Max(a, b) == IF a >= b THEN a ELSE b

\* faulty variant: the invalid-value penalty is added instead of subtracted
calculate_compliance_score_added(resource, pol) ==
    LET score0 == 100 * 2
        missing_required == check_required_tags(resource, pol)
        score1 == score0 - (Len(missing_required) * 50 * 2) \div Len(pol.REQUIRED_TAGS)
        missing_recommended == check_recommended_tags(resource, pol)
        score2 == score1 - (Len(missing_recommended) * 30 * 2) \div Len(pol.RECOMMENDED_TAGS)
        invalid_tags == validate_tag_values(resource, pol)
        score3 == score2 + Len(invalid_tags) * 10 * 2
    IN  Max(0, score3)

calculate_compliance_score(resource, pol) ==
    LET score0 == 100 * 2
        missing_required == check_required_tags(resource, pol)
        score1 == score0 - (Len(missing_required) * 50 * 2) \div Len(pol.REQUIRED_TAGS)
        missing_recommended == check_recommended_tags(resource, pol)
        score2 == score1 - (Len(missing_recommended) * 30 * 2) \div Len(pol.RECOMMENDED_TAGS)
        invalid_tags == validate_tag_values(resource, pol)
        score3 == score2 - Len(invalid_tags) * 10 * 2
    IN  Max(0, score3)

-----------------------------------------------------------------------------
(* Calls of the four functions on the resources under audit *)

FunctionNames ==
    {"check_required_tags", "check_recommended_tags",
     "validate_tag_values", "calculate_compliance_score"}

Apply(fn, resource, pol) ==
    CASE fn = "check_required_tags" -> check_required_tags(resource, pol)
      [] fn = "check_recommended_tags" -> check_recommended_tags(resource, pol)
      [] fn = "validate_tag_values" -> validate_tag_values(resource, pol)
      [] fn = "calculate_compliance_score" -> calculate_compliance_score(resource, pol)

\* faulty variant: validate_tag_values deletes the tags it finds invalid
CallFunction_cleaning(fn, n) ==
    /\ n \in 1..Len(resources)
    /\ returned' = Append(returned,
                          [fn |-> fn, arg |-> n, value |-> Apply(fn, resources[n], policy)])
    /\ resources' =
          IF fn = "validate_tag_values"
          THEN [resources EXCEPT ![n].tags =
                   [k \in DOMAIN @ \ {inv.tag : inv \in
                        Range(validate_tag_values(resources[n], policy))} |-> @[k]]]
          ELSE resources
    /\ UNCHANGED policy

\* a call reads resources[n] and the policy, and assigns neither
CallFunction(fn, n) ==
    /\ n \in 1..Len(resources)
    /\ returned' = Append(returned,
                          [fn |-> fn, arg |-> n, value |-> Apply(fn, resources[n], policy)])
    /\ UNCHANGED <<resources, policy>>

Audit ==
    /\ pc = "audit"
    /\ Len(returned) < MaxCalls
    /\ \E fn \in FunctionNames, n \in 1..Len(resources) : CallFunction(fn, n)
    /\ UNCHANGED <<objs, total_resources, groups, pc, locals>>

\* the tag values a record under audit may carry: for each tag of the policy
\* a valid or ordinary value, for some the empty string, for the enumerated
\* tags a value outside the enumeration; and the generator's extra tag
AuditValues ==
    ("Environment" :> {"Production", "", "Prod"}) @@
    ("CostCenter" :> {"IT-001"}) @@
    ("Owner" :> {"admin@company.com", ""}) @@
    ("Project" :> {"Project-Alpha"}) @@
    ("DataClassification" :> {"Restricted", "", "Secret"}) @@
    ("BackupPolicy" :> {"None", "", "Hourly"}) @@
    ("MaintenanceWindow" :> {"Weekend"}) @@
    ("Department" :> {"Engineering"})

RECURSIVE MappingsOver(_)
\* every mapping whose keys are among keys and whose values are AuditValues
MappingsOver(keys) ==
    IF keys = {}
    THEN {NoTags}
    ELSE LET key == CHOOSE k \in keys : TRUE
             rest == MappingsOver(keys \ {key})
         IN  rest \cup
             {[k \in DOMAIN m \cup {key} |-> IF k = key THEN v ELSE m[k]] :
                 m \in rest, v \in AuditValues[key]}

AuditedTags == MappingsOver(DOMAIN AuditValues)

-----------------------------------------------------------------------------
(* Tag-check.py: the generated records and the first analysis of the report *)

resource_types ==
    <<"Virtual Machine", "Storage Account", "SQL Database", "App Service",
      "Network Interface">>

possible_tags ==
    ("Environment" :> <<"Production", "Staging", "Development", "Test", "">>) @@
    ("CostCenter" :> <<"IT-001", "HR-002", "Sales-003", "Marketing-004", "">>) @@
    ("Owner" :> <<"john.doe@company.com", "jane.smith@company.com",
                  "admin@company.com", "">>) @@
    ("Project" :> <<"Project-Alpha", "Project-Beta", "Project-Gamma", "">>) @@
    ("DataClassification" :> <<"Public", "Internal", "Confidential", "Restricted", "">>) @@
    ("BackupPolicy" :> <<"Daily", "Weekly", "Monthly", "None", "">>) @@
    ("MaintenanceWindow" :> <<"Weekend", "Weekday-Night", "Anytime", "">>)

\* the order of possible_tags.items()
PossibleTagOrder ==
    <<"Environment", "CostCenter", "Owner", "Project",
      "DataClassification", "BackupPolicy", "MaintenanceWindow">>

Departments == <<"Engineering", "Finance", "HR">>

\* the number of records the script generates; the explored runs generate
\* MaxGenerated
RunSize == 50

\* the outcomes of "random.random() < p"
Chance == {TRUE, FALSE}

\* the outcomes of random.choice(values) that are explored: the first value
\* and, where the list holds it, the empty string
Choices(values) == {values[1]} \cup {v \in Range(values) : v = ""}

\* tags[tag_name] = value
Put(tags, tag_name, value) ==
    [k \in DOMAIN tags \cup {tag_name} |-> IF k = tag_name THEN value ELSE tags[k]]

\* faulty variant: the test "if value" is missing, an empty value is stored
DrawTag_storing_empty(tags, tag_name) ==
    {IF has THEN Put(tags, tag_name, value) ELSE tags :
        has \in Chance, value \in Choices(possible_tags[tag_name])}

\* one pass of the inner loop: the tag is drawn with chance 0.7, and stored
\* only if the value drawn is not empty
DrawTag(tags, tag_name) ==
    {IF has /\ value # "" THEN Put(tags, tag_name, value) ELSE tags :
        has \in Chance, value \in Choices(possible_tags[tag_name])}

RECURSIVE DrawTags(_)
\* for tag_name, tag_values in possible_tags.items(): ...
DrawTags(keys) ==
    IF keys = <<>>
    THEN {NoTags}
    ELSE UNION {DrawTag(tags, keys[Len(keys)]) :
                   tags \in DrawTags(SubSeq(keys, 1, Len(keys) - 1))}

\* "Sometimes add invalid tags": Department, with chance 0.1
DrawDepartment(tags) ==
    {IF has THEN Put(tags, "Department", value) ELSE tags :
        has \in Chance, value \in Choices(Departments)}

\* every tag mapping one iteration of the generator can build
GeneratedTags == UNION {DrawDepartment(tags) : tags \in DrawTags(PossibleTagOrder)}

\* resource_type.lower().replace(' ', '-')
Slug ==
    ("Virtual Machine" :> "virtual-machine") @@ ("Storage Account" :> "storage-account") @@
    ("SQL Database" :> "sql-database") @@ ("App Service" :> "app-service") @@
    ("Network Interface" :> "network-interface")

\* one iteration of "for i in range(50)", i being the records built so far;
\* the name is kept as the pair (slug, i + 1) that is formatted into it
GenerateResource ==
    /\ pc = "L50"
    /\ Len(resources) < MaxGenerated
    /\ \E resource_type \in Choices(resource_types), tags \in GeneratedTags :
          resources' = Append(resources,
                              [name |-> <<Slug[resource_type], Len(resources) + 1>>,
                               type |-> resource_type,
                               resource_group |-> "rg-production",
                               location |-> "East US",
                               tags |-> tags])
    /\ pc' = IF Len(resources) + 1 < MaxGenerated THEN "L50" ELSE "L142"
    /\ UNCHANGED locals

\* compliant_resources = []; non_compliant_resources = []; and the loop's iterator
BeginOverallCompliance ==
    /\ At("L142", "L145")
    /\ locals' = [compliant_resources |-> <<>>, non_compliant_resources |-> <<>>,
                  iter |-> 1]
    /\ UNCHANGED resources

\* faulty variant: the else is missing, every record is listed non-compliant
ClassifyResource_without_else ==
    /\ pc = "L145"
    /\ locals.iter <= Len(resources)
    /\ LET resource == resources[locals.iter]
           missing_required == check_required_tags(resource, policy)
       IN  locals' = [locals EXCEPT
              !.compliant_resources =
                 IF Len(missing_required) = 0 THEN Append(@, resource) ELSE @,
              !.non_compliant_resources = Append(@, resource),
              !.iter = @ + 1]
    /\ UNCHANGED <<pc, resources>>

\* one iteration of "for resource in resources" of the first analysis
ClassifyResource ==
    /\ pc = "L145"
    /\ locals.iter <= Len(resources)
    /\ LET resource == resources[locals.iter]
           missing_required == check_required_tags(resource, policy)
       IN  locals' = [locals EXCEPT
              !.compliant_resources =
                 IF Len(missing_required) = 0 THEN Append(@, resource) ELSE @,
              !.non_compliant_resources =
                 IF Len(missing_required) = 0 THEN @ ELSE Append(@, resource),
              !.iter = @ + 1]
    /\ UNCHANGED <<pc, resources>>

\* a / b rounded to the nearest integer, ties to even (a >= 0, b > 0)
RoundHalfEven(a, b) ==
    LET q == a \div b
        r == a % b
    IN  IF 2 * r < b THEN q
        ELSE IF 2 * r > b THEN q + 1
        ELSE IF q % 2 = 0 THEN q ELSE q + 1

\* f"{num / den:.1f}", as the number of tenths printed
Format1f(num, den) == RoundHalfEven(10 * num, den)

\* compliance_rate = (len(compliant) / len(resources)) * 100, kept as the
\* fraction 100 * len(compliant) / len(resources), and the two percentages
\* printed from it
PrintOverallCompliance ==
    /\ pc = "L145"
    /\ locals.iter > Len(resources)
    /\ pc' = "L154"
    /\ LET num == 100 * Len(locals.compliant_resources)
           den == Len(resources)
       IN  locals' = [k \in DOMAIN locals \cup {"printed_compliant", "printed_non_compliant"} |->
                         CASE k = "printed_compliant" -> Format1f(num, den)
                           [] k = "printed_non_compliant" -> Format1f(100 * den - num, den)
                           [] OTHER -> locals[k]]
    /\ UNCHANGED resources

\* locals with name bound to value
Bind(name, value) ==
    [k \in DOMAIN locals \cup {name} |-> IF k = name THEN value ELSE locals[k]]

RECURSIVE Sum(_)
Sum(seq) == IF seq = <<>> THEN 0 ELSE Head(seq) + Sum(Tail(seq))

\* avg_score = sum([calculate_compliance_score(r) for r in resources]) / len(resources):
\* the list of scores is kept, the average being Sum(scores) / Len(resources).
\* The second analysis, which only counts and prints, follows without a step.
AverageScore ==
    /\ At("L154", "L209")
    /\ locals' = Bind("scores",
                      [n \in 1..Len(resources) |->
                          calculate_compliance_score(resources[n], policy)])
    /\ UNCHANGED resources

\* resources_with_invalid_tags = []; and the loop's iterator
BeginInvalidValues ==
    /\ At("L209", "L211")
    /\ locals' = [k \in DOMAIN locals \cup {"resources_with_invalid_tags"} |->
                     CASE k = "resources_with_invalid_tags" -> <<>>
                       [] k = "iter" -> 1
                       [] OTHER -> locals[k]]
    /\ UNCHANGED resources

\* one iteration of "for resource in resources" of the third analysis
ValidateResource ==
    /\ pc = "L211"
    /\ locals.iter <= Len(resources)
    /\ LET resource == resources[locals.iter]
           invalid_tags == validate_tag_values(resource, policy)
       IN  locals' = [locals EXCEPT
              !.resources_with_invalid_tags =
                 IF invalid_tags # <<>>
                 THEN Append(@, [resource |-> resource, invalid_tags |-> invalid_tags])
                 ELSE @,
              !.iter = @ + 1]
    /\ UNCHANGED <<pc, resources>>

\* the branch printed after the loop
PrintInvalidValues ==
    /\ pc = "L211"
    /\ locals.iter > Len(resources)
    /\ pc' = "L233"
    /\ locals' = Bind("printed_invalid_values",
                      IF locals.resources_with_invalid_tags # <<>>
                      THEN "resource(s) with invalid tag values"
                      ELSE "All tag values are valid")
    /\ UNCHANGED resources

Report ==
    /\ \/ GenerateResource
       \/ BeginOverallCompliance
       \/ ClassifyResource
       \/ PrintOverallCompliance
       \/ AverageScore
       \/ BeginInvalidValues
       \/ ValidateResource
       \/ PrintInvalidValues
    /\ UNCHANGED <<objs, total_resources, groups, policy, returned>>

-----------------------------------------------------------------------------

InitCommon ==
    /\ objs = <<>>
    /\ total_resources = 0
    /\ groups = [g \in GroupNames |-> <<>>]
    /\ locals = [k \in {} |-> 0]
    /\ policy = Policy
    /\ returned = <<>>

Init ==
    /\ InitCommon
    /\ pc \in {"client", "L418"}
    /\ resources = <<>>

Next == Client \/ Script

Spec == Init /\ [][Next]_vars

InitResources ==
    /\ InitCommon
    /\ pc = "client"
    /\ resources = <<>>

NextResources == ClientWithoutGroups

SpecResources == InitResources /\ [][NextResources]_vars

InitTag ==
    /\ InitCommon
    /\ pc = "audit"
    /\ \E t \in AuditedTags :
          resources = <<[name |-> "virtual-machine-001", type |-> "Virtual Machine",
                         resource_group |-> "rg-production", location |-> "East US",
                         tags |-> t]>>

NextTag == Audit

SpecTag == InitTag /\ [][NextTag]_vars

InitReport ==
    /\ InitCommon
    /\ pc = "L50"
    /\ resources = <<>>

NextReport == Report

SpecReport == InitReport /\ [][NextReport]_vars

-----------------------------------------------------------------------------
(* Properties of the tag auditor, checked under SpecTag *)

RequiredSet == {"Environment", "CostCenter", "Owner", "Project"}
RecommendedSet == {"DataClassification", "BackupPolicy", "MaintenanceWindow"}
EnumeratedSet == {"Environment", "DataClassification", "BackupPolicy"}

MissingRequired(tags) == Cardinality(RequiredSet \ DOMAIN tags)
MissingRecommended(tags) == Cardinality(RecommendedSet \ DOMAIN tags)
InvalidPresent(tags) ==
    Cardinality({k \in DOMAIN tags \cap EnumeratedSet :
                    tags[k] \notin Range(VALID_VALUES[k])})

ScoreCalls == {n \in 1..Len(returned) : returned[n].fn = "calculate_compliance_score"}

\* C1: every score returned is max(0, 100 - 50*(missing required / 4)
\* - 30*(missing recommended / 3) - 10*(present tags with a value outside their
\* enumeration)), a tag being missing exactly when its key is absent. In half
\* points: max(0, 200 - 25*required - 20*recommended - 20*invalid).
C1_ScoreFormula ==
    \A n \in ScoreCalls :
       LET tags == resources[returned[n].arg].tags
       IN  returned[n].value =
              Max(0, 200 - 25 * MissingRequired(tags)
                         - 20 * MissingRecommended(tags)
                         - 20 * InvalidPresent(tags))

\* a score of 57.5 returned for a record that lacks one required and one
\* recommended tag, holds a required tag with the empty string and one invalid value
C1_Witness ==
    \E n \in ScoreCalls :
       LET tags == resources[returned[n].arg].tags
       IN  /\ MissingRequired(tags) = 1
           /\ MissingRecommended(tags) = 1
           /\ InvalidPresent(tags) = 2
           /\ "Owner" \in DOMAIN tags /\ tags["Owner"] = ""
           /\ returned[n].value = 115

\* C2: every score returned lies in 0..100 (0..200 half points)
C2_ScoreRange ==
    \A n \in ScoreCalls : returned[n].value >= 0 /\ returned[n].value <= 100 * 2

\* the score 20 returned for a record with no tag at all, and then asked again
C2_Witness ==
    /\ Len(returned) >= 2
    /\ returned[1].fn = "calculate_compliance_score"
    /\ returned[1].value = 40
    /\ returned[2].fn = "calculate_compliance_score"
    /\ DOMAIN resources[returned[1].arg].tags = {}

Deterministic ==
    \A a, b \in 1..Len(returned) :
       (returned[a].fn = returned[b].fn /\ returned[a].arg = returned[b].arg)
          => returned[a].value = returned[b].value

-----------------------------------------------------------------------------
(* Properties of the resource classes. Those about single instances (C4, C5, *)
(* C6, C8) are checked under SpecResources, the others under Spec.          *)

VMs == {i \in Ids : objs[i].kind = "VirtualMachine"}
Others == Ids \ VMs

\* C4: a Stopped VirtualMachine costs 0 for every size and hour count; a
\* Running one costs the rate of its size times the hours, 730 by default;
\* so the cost is 0 after stop() and rate * hours again after a following start()
C4_VMCost ==
    \A i \in VMs :
       LET r == objs[i]
           stopped == AzureResource_stop(r).self
           restarted == AzureResource_start(stopped).self
       IN  /\ r.status = "Stopped" => \A h \in Hours : calculate_cost(r, h) = 0
           /\ (r.status = "Running" /\ r.vm_size \in DOMAIN VM_PRICING) =>
                 /\ \A h \in Hours : calculate_cost(r, h) = VM_PRICING[r.vm_size] * h
                 /\ cost(r) = VM_PRICING[r.vm_size] * 730
           /\ stopped.status = "Stopped" /\ cost(stopped) = 0
           /\ restarted.status = "Running"
           /\ r.vm_size \in DOMAIN VM_PRICING =>
                 cost(restarted) = VM_PRICING[r.vm_size] * 730

\* a resized VM that has been stopped, next to a running one of another size
C4_Witness ==
    \E i, j \in VMs :
       /\ objs[i].status = "Stopped" /\ objs[i].vm_size = "Standard_D2s_v3"
       /\ cost(objs[i]) = 0
       /\ objs[j].status = "Running" /\ objs[j].vm_size = "Standard_D4s_v3"
       /\ cost(objs[j]) = 14016000

ExpectedCost(r) ==
    CASE r.kind = "StorageAccount" -> r.storage_gb * TIER_PRICING[r.tier]
      [] r.kind = "SQLDatabase" -> DTU_PRICING[r.tier] + r.storage_gb * 11500 + 1000000
      [] r.kind = "AppService" -> PLAN_PRICING[r.plan] * r.instances

\* C5: the cost of a StorageAccount, SQLDatabase or AppService is storage_gb *
\* tier rate, tier rate + storage_gb * 0.115 + 10, plan rate * instances, whatever
\* its status and whatever hours is passed; stop() leaves it unchanged
C5_OtherCosts ==
    \A i \in Others :
       LET r == objs[i]
       IN  /\ \A h \in Hours, st \in {"Running", "Stopped"} :
                 calculate_cost([r EXCEPT !.status = st], h) = ExpectedCost(r)
           /\ cost(AzureResource_stop(r).self) = cost(r)

\* a stopped app service scaled out to 10 instances, still costing 10 * 54.75
C5_Witness ==
    \E i \in Others :
       /\ objs[i].kind = "AppService"
       /\ objs[i].status = "Stopped"
       /\ objs[i].instances = 10
       /\ cost(objs[i]) = 54750000

\* C6: start() on a Running resource and stop() on a Stopped one change no
\* attribute and report "already running" / "already stopped"; stop();stop()
\* leaves what stop() leaves, start();start() what start() leaves
C6_Idempotent ==
    \A i \in Ids :
       LET r == objs[i]
       IN  /\ r.status = "Running" =>
                 AzureResource_start(r) = [self |-> r, ret |-> [msg |-> "is already running"]]
           /\ r.status = "Stopped" =>
                 AzureResource_stop(r) = [self |-> r, ret |-> [msg |-> "is already stopped"]]
           /\ AzureResource_stop(AzureResource_stop(r).self).self = AzureResource_stop(r).self
           /\ AzureResource_start(AzureResource_start(r).self).self = AzureResource_start(r).self

\* a stopped, tagged, rescaled resource next to a running one
C6_Witness ==
    \E i, j \in Ids :
       /\ objs[i].status = "Stopped"
       /\ DOMAIN objs[i].tags # {}
       /\ objs[i].kind = "AppService" /\ objs[i].instances = 10
       /\ objs[j].status = "Running"

TwoValued == \A i \in Ids : objs[i].status \in {"Running", "Stopped"}

\* C7: a resource is created Running, and after every step of every sequence
\* of operations its status is Running or Stopped
C7_StatusTwoValued ==
    [][/\ TwoValued'
       /\ Len(objs') > Len(objs) => objs'[Len(objs')].status = "Running"]_vars

\* both values at once, on two virtual machines
C7_Witness ==
    \E i, j \in VMs : objs[i].status = "Stopped" /\ objs[j].status = "Running"

BadSizes == {"Standard_Z9", "", "standard_d2s_v3", "Archive"} \ DOMAIN VM_PRICING
BadStorageTiers == {"Premium", "", "hot", "Basic"} \ DOMAIN TIER_PRICING
BadDatabaseTiers == {"Hyperscale", "", "s0", "Hot"} \ DOMAIN DTU_PRICING
BadCounts == {-1, 0, 11, 12}

Rejected(r, result, msg) ==
    /\ result.self = r
    /\ result.ret = [msg |-> msg]
    /\ Icon(result.ret) = "error"
    /\ result.self.status = r.status
    /\ cost(result.self) = cost(r)

\* C8: resize, change_tier and scale_tier with a value outside the rate table and
\* scale_out with a count below 1 or above 10 return an error string and leave
\* the size / tier / instance count, the status and the cost as they were
C8_InvalidRejected ==
    \A i \in Ids :
       LET r == objs[i]
       IN  CASE r.kind = "VirtualMachine" ->
                  \A x \in BadSizes :
                     Rejected(r, VirtualMachine_resize(r, x), "Invalid VM size")
             [] r.kind = "StorageAccount" ->
                  \A x \in BadStorageTiers :
                     Rejected(r, StorageAccount_change_tier(r, x), "Invalid tier")
             [] r.kind = "SQLDatabase" ->
                  \A x \in BadDatabaseTiers :
                     Rejected(r, SQLDatabase_scale_tier(r, x), "Invalid tier")
             [] r.kind = "AppService" ->
                  \A x \in BadCounts :
                     Rejected(r, AppService_scale_out(r, x),
                              "Instance count must be between 1 and 10")

\* a stopped VM of a valid size and an app service at the upper limit, on
\* which the invalid calls are made
C8_Witness ==
    \E i, j \in Ids :
       /\ objs[i].kind = "VirtualMachine" /\ objs[i].status = "Stopped"
       /\ objs[i].vm_size = "Standard_D2s_v3"
       /\ objs[j].kind = "AppService" /\ objs[j].instances = 10

Occurrences(members, i) == Cardinality({n \in 1..Len(members) : members[n] = i})

RECURSIVE SumOver(_, _)
SumOver(ids, f) ==
    IF ids = {}
    THEN 0
    ELSE LET i == CHOOSE x \in ids : TRUE
         IN  f[i] + SumOver(ids \ {i}, f)

\* C9: total_cost() of a group is the sum of calculate_cost() over its members,
\* a resource counted once per occurrence; 0 for an empty group
C9_TotalCost ==
    \A g \in GroupNames :
       /\ total_cost(g) =
             SumOver(Ids, [i \in Ids |-> Occurrences(groups[g], i) * cost(objs[i])])
       /\ groups[g] = <<>> => total_cost(g) = 0

\* a group listing one app service twice, after it was scaled out, beside a
\* group holding a stopped VM
C9_Witness ==
    \E g, h \in GroupNames :
       /\ Len(groups[g]) = 2
       /\ groups[g][1] = groups[g][2]
       /\ objs[groups[g][1]].kind = "AppService"
       /\ total_cost(g) = 2 * 54750000
       /\ Len(groups[h]) = 1
       /\ objs[groups[h][1]].kind = "VirtualMachine"
       /\ total_cost(h) = 0

\* C10: total_resources is the number of instances constructed so far; a
\* construction adds exactly 1 and nothing else changes it; the script prints 10
C10_Counter ==
    [][/\ total_resources' = Len(objs')
       /\ \/ Len(objs') = Len(objs) + 1 /\ total_resources' = total_resources + 1
          \/ Len(objs') = Len(objs) /\ total_resources' = total_resources
       /\ "printed_total_resources" \in DOMAIN locals' =>
             locals'["printed_total_resources"] = 10]_vars

\* the script after its print of the counter and the stop of vm-dev-01
C10_Witness ==
    /\ pc = "L530"
    /\ total_resources = 10
    /\ locals["printed_total_resources"] = 10
    /\ objs[vm_dev].status = "Stopped"
    /\ {objs[i].kind : i \in Ids} =
          {"VirtualMachine", "StorageAccount", "SQLDatabase", "AppService"}

Members(g) == Range(groups[g])

\* C11: a group holds references: add_resource accepts an instance whatever
\* groups already list it, and stop_all on one group is seen through every
\* other group: each member of the first is Stopped, nothing else changes, and
\* the other group's total_cost drops by the running cost of each shared
\* VirtualMachine, once per time the other group lists it
C11_SharedReferences ==
    \A g, h \in GroupNames :
       LET after == StopEach(groups[g], objs)
           shared == [i \in Ids |->
                         IF i \in VMs \cap Members(g)
                         THEN Occurrences(groups[h], i) * cost(objs[i])
                         ELSE 0]
       IN  /\ \A i \in Ids :
                 ResourceGroup_add_resource(groups[h], i, objs) =
                    [members |-> Append(groups[h], i), ret |-> [msg |-> "Added"]]
           /\ \A i \in Members(g) : after[i] = [objs[i] EXCEPT !.status = "Stopped"]
           /\ \A i \in Ids \ Members(g) : after[i] = objs[i]
           /\ \A i \in Members(g) \cap Members(h) \cap VMs : cost(after[i]) = 0
           /\ SumCost(groups[h], after) = SumCost(groups[h], objs) - SumOver(Ids, shared)

\* a running VM listed by both groups, the second listing another resource
\* before it: stop_all on the first lowers the second's total by 140.16
C11_Witness ==
    \E i \in VMs, j \in Others :
       /\ groups["rg-production"] = <<i>>
       /\ groups["rg-development"] = <<j, i>>
       /\ objs[i].status = "Running" /\ objs[i].vm_size = "Standard_D4s_v3"
       /\ SumCost(groups["rg-development"], StopEach(groups["rg-production"], objs))
             = total_cost("rg-development") - 14016000

Storages == {i \in Ids : objs[i].kind = "StorageAccount"}

Changed(r, result, field, value) ==
    /\ result.self = [r EXCEPT ![field] = value]
    /\ result.self.status = r.status
    /\ result.ret.old_cost = cost(r)
    /\ result.ret.new_cost = cost(result.self)
    /\ result.ret.savings = cost(r) - cost(result.self)
    /\ Icon(result.ret) = "ok"

\* C12: resize / change_tier with a key of the rate table set the size / tier
\* to it, leave the status alone and report savings = cost before - cost after,
\* both in the current status: a Stopped VM reports 0, 0 and savings 0 and is
\* resized all the same
C12_Savings ==
    /\ \A i \in VMs, new_size \in DOMAIN VM_PRICING :
          LET r == objs[i]
              result == VirtualMachine_resize(r, new_size)
          IN  /\ Changed(r, result, "vm_size", new_size)
              /\ r.status = "Stopped" =>
                    /\ result.ret.old_cost = 0
                    /\ result.ret.new_cost = 0
                    /\ result.ret.savings = 0
                    /\ result.self.vm_size = new_size
              /\ (r.status = "Running" /\ r.vm_size \in DOMAIN VM_PRICING) =>
                    result.ret.savings =
                       (VM_PRICING[r.vm_size] - VM_PRICING[new_size]) * 730
    /\ \A i \in Storages, new_tier \in DOMAIN TIER_PRICING :
          LET r == objs[i]
              result == StorageAccount_change_tier(r, new_tier)
          IN  /\ Changed(r, result, "tier", new_tier)
              /\ result.ret.savings =
                    r.storage_gb * (TIER_PRICING[r.tier] - TIER_PRICING[new_tier])

\* a VM resized and stopped beside a storage account moved to Archive
C12_Witness ==
    \E i \in VMs, j \in Storages :
       /\ objs[i].status = "Stopped" /\ objs[i].vm_size = "Standard_D2s_v3"
       /\ objs[j].tier = "Archive"
       /\ StorageAccount_change_tier(objs[j], "Hot").ret.savings = 495000 - 9200000

-----------------------------------------------------------------------------
(* Properties of the generated report, checked under SpecReport *)

Classified == locals.compliant_resources \o locals.non_compliant_resources

\* C13: the generator can leave out any tag; a record is listed compliant
\* exactly when no required tag is missing from it; the two lists are disjoint
\* and hold every generated record exactly once, so their sizes sum to the
\* number generated and the two printed percentages to 100.0
C13_Partition ==
    /\ \A t \in Range(TagOrder) : \E tags \in GeneratedTags : t \notin DOMAIN tags
    /\ NoTags \in GeneratedTags
    /\ pc \in {"L145", "L154"} =>
          /\ \A n \in 1..(locals.iter - 1) :
                /\ Cardinality({m \in 1..Len(Classified) : Classified[m] = resources[n]}) = 1
                /\ resources[n] \in Range(locals.compliant_resources)
                      <=> RequiredSet \subseteq DOMAIN resources[n].tags
                /\ resources[n] \in Range(locals.non_compliant_resources)
                      <=> ~(RequiredSet \subseteq DOMAIN resources[n].tags)
          /\ Range(locals.compliant_resources) \cap Range(locals.non_compliant_resources) = {}
          /\ Len(Classified) = locals.iter - 1
    /\ pc = "L154" =>
          /\ Len(resources) = MaxGenerated
          /\ Len(locals.compliant_resources) + Len(locals.non_compliant_resources)
                = Len(resources)
          /\ locals.printed_compliant + locals.printed_non_compliant = 1000
    /\ \A k \in 0..RunSize :
          Format1f(100 * k, RunSize) + Format1f(100 * RunSize - 100 * k, RunSize) = 1000

\* a run whose first record has no tag at all and whose second has all four
\* required tags: one record in each list, 50.0% and 50.0% printed
C13_Witness ==
    /\ pc = "L154"
    /\ DOMAIN resources[1].tags = {}
    /\ locals.compliant_resources = <<resources[2]>>
    /\ locals.non_compliant_resources = <<resources[1]>>
    /\ locals.printed_compliant = 500
    /\ locals.printed_non_compliant = 500

-----------------------------------------------------------------------------
(* Properties of ResourceGroup, checked under Spec *)

RemovedNames == Names \cup {"vm-web-prod-01", "no-such-resource"}

Named(members, name) == {n \in 1..Len(members) : objs[members[n]].name = name}

Kept(members, name) == SelectSeq(members, LAMBDA i : objs[i].name # name)

\* C14: remove_resource(name) removes every member of that name, keeps the
\* others, and returns the success message also when no member has the name
\* (the group is then unchanged); afterwards get_resource(name) is None and
\* len(group) is lower by the number of members that had the name
C14_RemoveAll ==
    \A g \in GroupNames, name \in RemovedNames :
       LET result == ResourceGroup_remove_resource(groups[g], name, objs)
       IN  /\ result.ret = [msg |-> "Removed"]
           /\ Icon(result.ret) = "ok"
           /\ result.members = Kept(groups[g], name)
           /\ Named(groups[g], name) = {} => result.members = groups[g]
           /\ FindByName(result.members, objs, name) = NotAResource
           /\ ResourceGroup_len(result.members) =
                 ResourceGroup_len(groups[g]) - Cardinality(Named(groups[g], name))

\* a group listing two instances of one name, beside a group whose only
\* member has another name
C14_Witness ==
    \E g, h \in GroupNames, i, j \in Ids :
       /\ i # j
       /\ groups[g] = <<i, j>>
       /\ objs[i].name = "app-dev" /\ objs[j].name = "app-dev"
       /\ groups[h] = <<i>>
       /\ ResourceGroup_remove_resource(groups[g], "app-dev", objs).members = <<>>
       /\ ResourceGroup_remove_resource(groups[h], "vm-dev-01", objs).members = <<i>>

First(members, name) ==
    IF Named(members, name) = {}
    THEN NotAResource
    ELSE members[CHOOSE n \in Named(members, name) :
                    \A m \in Named(members, name) : n <= m]

\* C15: the members stay in insertion order: every step leaves a group as it
\* is, appends one member at its end, or drops the members of one name and
\* keeps the others in their order; a step that changes an instance (start_all
\* and stop_all among them) changes no group; iteration gives the members in
\* that order; get_resource gives the earliest-added member of the name, or None
C15_InsertionOrder ==
    /\ [](\A g \in GroupNames :
             /\ ResourceGroup_iter(groups[g]) = groups[g]
             /\ \A name \in RemovedNames :
                   /\ get_resource(g, name) = First(groups[g], name)
                   /\ get_resource(g, name) = NotAResource <=> Named(groups[g], name) = {})
    /\ [][/\ groups' # groups =>
                \A g \in GroupNames :
                   \/ groups'[g] = groups[g]
                   \/ \E x \in Ids : groups'[g] = Append(groups[g], x)
                   \/ \E name \in RemovedNames : groups'[g] = Kept(groups[g], name)
          /\ objs' # objs => groups' = groups]_vars

\* a group that lists the second-built instance before the first-built one, both
\* of one name: get_resource gives the second-built one
C15_Witness ==
    \E g \in GroupNames :
       /\ groups[g] = <<2, 1>>
       /\ objs[1].name = objs[2].name
       /\ get_resource(g, objs[1].name) = 2
       /\ objs[2].status = "Stopped" /\ objs[1].status = "Stopped"

-----------------------------------------------------------------------------
(* Further properties of the resource classes and of the script *)

Apps == {i \in Ids : objs[i].kind = "AppService"}

CountInputs == -1..12

AutoScaleArgs == {<<0, 20>>, <<1, 5>>, <<2, 5>>, <<11, 0>>}

\* C16: an AppService created with 1..10 instances keeps a count in 1..10:
\* scale_out(n) is accepted exactly when 1 <= n <= 10 and then sets the count
\* to n, otherwise changes nothing; enable_auto_scale changes neither the count
\* nor the cost, whatever limits it is given
C16_InstanceRange ==
    \A i \in Apps :
       LET r == objs[i]
       IN  /\ r.instances \in 1..10
           /\ \A n \in CountInputs :
                 LET result == AppService_scale_out(r, n)
                 IN  /\ (1 <= n /\ n <= 10) =>
                           /\ result.self = [r EXCEPT !.instances = n]
                           /\ Icon(result.ret) = "ok"
                     /\ ~(1 <= n /\ n <= 10) =>
                           /\ result.self = r
                           /\ Icon(result.ret) = "error"
                     /\ result.self.instances \in 1..10
           /\ \A mm \in AutoScaleArgs :
                 LET result == AppService_enable_auto_scale(r, mm[1], mm[2])
                 IN  /\ result.self.instances = r.instances
                     /\ result.self.plan = r.plan
                     /\ cost(result.self) = cost(r)
                     /\ result.self.auto_scale

\* an app service at 10 instances with auto-scale enabled with limits 0 and 20
C16_Witness ==
    \E i \in Apps :
       /\ objs[i].instances = 10
       /\ objs[i].auto_scale
       /\ objs[i].max_instances = 20
       /\ objs[i].min_instances = 0

BothGroupsCost == total_cost("rg-production") + total_cost("rg-development")

ResizeSaving == (VM_PRICING["Standard_D4s_v3"] - VM_PRICING["Standard_D2s_v3"]) * 730
TierSaving == 5000 * (TIER_PRICING["Cool"] - TIER_PRICING["Archive"])
StopSaving == VM_PRICING["Standard_B2s"] * 730

\* C17: in the scripted run the total of both groups after the optimization is
\* strictly lower than before, by exactly the resize of vm-web-prod-01
\* (D4s_v3 to D2s_v3) + the tier change of stprodbackup001 (Cool to Archive)
\* + the running cost of the stopped vm-dev-01; scale_out(1), scale_tier("Basic")
\* and enable_auto_scale change no cost
C17_ScriptSavings ==
    /\ [](pc # "client" =>
             /\ app_dev \in Ids =>
                   cost(AppService_scale_out(objs[app_dev], 1).self) = cost(objs[app_dev])
             /\ sql_dev \in Ids =>
                   cost(SQLDatabase_scale_tier(objs[sql_dev], "Basic").self)
                      = cost(objs[sql_dev])
             /\ app_prod \in Ids =>
                   cost(AppService_enable_auto_scale(objs[app_prod], 2, 5).self)
                      = cost(objs[app_prod]))
    /\ [](pc = "done" =>
             /\ locals["new_total_cost"] < locals["old_total_cost"]
             /\ locals["savings"] = ResizeSaving + TierSaving + StopSaving
             /\ locals["savings"] > 0
             /\ locals["old_total_cost"] = locals["prod_cost"] + locals["dev_cost"]
             /\ locals["new_total_cost"] = BothGroupsCost)
    /\ [][/\ pc = "L517" =>
                /\ objs[vm_web].vm_size = "Standard_D4s_v3"
                /\ objs'[vm_web].vm_size = "Standard_D2s_v3"
                /\ BothGroupsCost' = BothGroupsCost - ResizeSaving
          /\ pc = "L520" =>
                /\ objs[storage_backup].tier = "Cool"
                /\ objs'[storage_backup].tier = "Archive"
                /\ BothGroupsCost' = BothGroupsCost - TierSaving
          /\ pc = "L527" =>
                /\ objs'[vm_dev].status = "Stopped"
                /\ BothGroupsCost' = BothGroupsCost - cost(objs[vm_dev])
                /\ cost(objs[vm_dev]) = StopSaving
          /\ pc \in {"L523", "L524", "L530"} =>
                /\ BothGroupsCost' = BothGroupsCost
                /\ \A i \in Ids : cost(objs'[i]) = cost(objs[i])
          /\ pc = "L507" => BothGroupsCost = locals'["prod_cost"] + locals'["dev_cost"]]_vars

\* the end of the script: 1339.678 before, 1194.180 after, 145.498 saved
C17_Witness ==
    /\ pc = "done"
    /\ locals["old_total_cost"] = 133967800
    /\ locals["new_total_cost"] = 119418000
    /\ locals["savings"] = 14549800
    /\ objs[app_prod].auto_scale /\ objs[app_prod].instances = 3

ValidKey(r) ==
    CASE r.kind = "VirtualMachine" -> r.vm_size \in DOMAIN VM_PRICING
      [] r.kind = "StorageAccount" -> r.tier \in DOMAIN TIER_PRICING
      [] r.kind = "SQLDatabase" -> r.tier \in DOMAIN DTU_PRICING
      [] r.kind = "AppService" -> r.plan \in DOMAIN PLAN_PRICING

\* C18: an instance whose size / tier / plan is a key of its rate table keeps
\* a key of the table through every step (every storage account, database and
\* app service here is built with one, a VM with or without), so calculate_cost
\* on it, and total_cost / list_resources on a group of such instances, never
\* raise for a missing rate
C18_KeyKept ==
    /\ [](/\ \A i \in Ids :
                /\ objs[i].kind # "VirtualMachine" => ValidKey(objs[i])
                /\ ValidKey(objs[i]) => ~MissingRate(objs[i])
          /\ \A g \in GroupNames :
                (\A i \in Members(g) : ValidKey(objs[i])) =>
                   \A i \in Members(g) : ~MissingRate(objs[i]))
    /\ [][\A i \in Ids : ValidKey(objs[i]) => ValidKey(objs'[i])]_vars

\* a group of a storage account moved to Archive and a database scaled to
\* Basic, totalled without a fault
C18_Witness ==
    \E g \in GroupNames, i, j \in Ids :
       /\ groups[g] = <<i, j>>
       /\ objs[i].kind = "StorageAccount" /\ objs[i].tier = "Archive"
       /\ objs[j].kind = "SQLDatabase" /\ objs[j].tier = "Basic"
       /\ total_cost(g) = 495000 + (499000 + 50 * 11500 + 1000000)
       /\ ResourceGroup_list_resources(groups[g], objs) = total_cost(g)

\* C19: the floor of the score is never reached: the score before max(0, .) is
\* at least 20 for every tag mapping, since only a present tag can be invalid
\* and only the three enumerated tags can be
C19_FloorUnreached ==
    /\ DOMAIN VALID_VALUES = EnumeratedSet
    /\ \A n \in ScoreCalls :
          LET resource == resources[returned[n].arg]
              unfloored ==
                 200 - (Len(check_required_tags(resource, policy)) * 100) \div 4
                     - (Len(check_recommended_tags(resource, policy)) * 60) \div 3
                     - Len(validate_tag_values(resource, policy)) * 20
          IN  /\ unfloored >= 40
              /\ returned[n].value = unfloored
              /\ returned[n].value >= 40
              /\ Len(validate_tag_values(resource, policy))
                    <= Cardinality(DOMAIN resource.tags \cap EnumeratedSet)

\* the score 22.5 of a record that holds exactly the three enumerated tags,
\* each with a value outside its list
C19_Witness ==
    /\ Len(returned) = 1
    /\ returned[1].fn = "calculate_compliance_score"
    /\ DOMAIN resources[1].tags = EnumeratedSet
    /\ InvalidPresent(resources[1].tags) = 3
    /\ returned[1].value = 45

\* C20: restart() leaves a VirtualMachine Running whatever its status was: a
\* Stopped one is started and costs rate * hours again, a Running one is as
\* before; size, tags and every other attribute are unchanged
C20_Restart ==
    \A i \in VMs :
       LET r == objs[i]
           result == VirtualMachine_restart(r)
       IN  /\ result.self = [r EXCEPT !.status = "Running"]
           /\ result.self.vm_size = r.vm_size /\ result.self.tags = r.tags
           /\ Icon(result.ret) = "ok"
           /\ r.status = "Running" => result.self = r /\ cost(result.self) = cost(r)
           /\ (r.status = "Stopped" /\ r.vm_size \in DOMAIN VM_PRICING) =>
                 /\ \A h \in Hours : calculate_cost(r, h) = 0
                 /\ \A h \in Hours :
                       calculate_cost(result.self, h) = VM_PRICING[r.vm_size] * h

\* a stopped, tagged VM of size D2s_v3, which restart brings back to 70.08
C20_Witness ==
    \E i \in VMs :
       /\ objs[i].status = "Stopped"
       /\ objs[i].vm_size = "Standard_D2s_v3"
       /\ DOMAIN objs[i].tags = {"Environment"}
       /\ cost(objs[i]) = 0
       /\ cost(VirtualMachine_restart(objs[i]).self) = 7008000

-----------------------------------------------------------------------------
(* The values the generator produces, checked under SpecReport *)

====
